---------------------------- MODULE Spec2Model ----------------------------
(***************************************************************************)
(* Event submission and time normalisation of delaware-gop-events.        *)
(*                                                                         *)
(* Time values are ECMAScript time values counted in MINUTES since the     *)
(* epoch (every Date built by calculateEndDate has zero seconds and        *)
(* milliseconds).  A JavaScript value that may be a number, NaN or         *)
(* undefined is a record [k, v] with k in {"num", "nan", "undef"}.         *)
(* A JavaScript string that the code takes apart (startTime) is a          *)
(* sequence of one-character strings.                                      *)
(* The server's zone is a fixed offset (no daylight saving transitions).   *)
(***************************************************************************)
EXTENDS Integers, Sequences, FiniteSets, TLC

VARIABLES
    events,      \* the events table: id -> stored row
    nextId,      \* the table's AUTO_INCREMENT counter
    clock,       \* the wall clock: each call that writes the table sees the next tick
    serverTz,    \* getTimezoneOffset() of the server process, in minutes
    lastResult,  \* request and response of the last procedure call
    calcArgs,    \* arguments of a direct calculateEndDate call
    calcResult,  \* its return value
    calcPc,      \* "ready" before the call, "done" after
    inflight,    \* moderation calls in progress: admin id -> call record
    db,          \* whether getDb() returns a connection (DATABASE_URL is set)
    form         \* the submission form: its recurringMonths value, and the
                 \* months clicked an odd number of times so far

vars == <<events, nextId, clock, serverTz, lastResult, calcArgs, calcResult, calcPc,
          inflight, db, form>>

---------------------------------------------------------------------------
(* JavaScript values *)

Num(n) == [k |-> "num", v |-> n]

NaN == [k |-> "nan", v |-> 0]

Undef == [k |-> "undef", v |-> 0]

IsNum(x) == x.k = "num"

\* JavaScript truthiness of a number or undefined: 0, NaN and undefined are falsy
Truthy(x) == x.k = "num" /\ x.v # 0

\* x + y on numbers
JSAdd(x, y) == IF IsNum(x) /\ IsNum(y) THEN Num(x.v + y.v) ELSE NaN

---------------------------------------------------------------------------
(* ECMAScript date arithmetic (ECMA-262, Date objects), in minutes *)

MinPerHour == 60

MinPerDay == 24 * MinPerHour

Day(t) == t \div MinPerDay

TimeWithinDay(t) == t % MinPerDay

DaysInYear(y) ==
    IF y % 4 # 0 THEN 365
    ELSE IF y % 100 # 0 THEN 366
    ELSE IF y % 400 # 0 THEN 365
    ELSE 366

DayFromYear(y) ==
    365 * (y - 1970) + ((y - 1969) \div 4) - ((y - 1901) \div 100) + ((y - 1601) \div 400)

InLeapYearOf(y) == IF DaysInYear(y) = 366 THEN 1 ELSE 0

\* the largest y with DayFromYear(y) <= Day(t)
YearFromTime(t) ==
    LET d  == Day(t)
        a  == d \div 365
        b  == d \div 366
        lo == 1970 + (IF a < b THEN a ELSE b) - 1
        hi == 1970 + (IF a < b THEN b ELSE a) + 1
    IN  CHOOSE y \in lo..hi : DayFromYear(y) <= d /\ d < DayFromYear(y + 1)

DayWithinYear(t) == Day(t) - DayFromYear(YearFromTime(t))

\* number of days of the year before month m (0..11), leap = 0 or 1
DaysBeforeMonth(m, leap) ==
    CASE m = 0  -> 0
      [] m = 1  -> 31
      [] m = 2  -> 59 + leap
      [] m = 3  -> 90 + leap
      [] m = 4  -> 120 + leap
      [] m = 5  -> 151 + leap
      [] m = 6  -> 181 + leap
      [] m = 7  -> 212 + leap
      [] m = 8  -> 243 + leap
      [] m = 9  -> 273 + leap
      [] m = 10 -> 304 + leap
      [] m = 11 -> 334 + leap
      [] m = 12 -> 365 + leap

MonthFromTime(t) ==
    LET leap == InLeapYearOf(YearFromTime(t))
        dwy  == DayWithinYear(t)
    IN  CHOOSE m \in 0..11 :
            DaysBeforeMonth(m, leap) <= dwy /\ dwy < DaysBeforeMonth(m + 1, leap)

DateFromTime(t) ==
    DayWithinYear(t) - DaysBeforeMonth(MonthFromTime(t), InLeapYearOf(YearFromTime(t))) + 1

HourFromTime(t) == TimeWithinDay(t) \div MinPerHour

MinFromTime(t) == TimeWithinDay(t) % MinPerHour

\* MakeDay(year, month, date): the day number of the given calendar day;
\* month and date may lie outside their natural ranges
MakeDay(year, month, date) ==
    LET ym == year + (month \div 12)
        mn == month % 12
    IN  DayFromYear(ym) + DaysBeforeMonth(mn, InLeapYearOf(ym)) + date - 1

\* MakeTime(hour, min, 0, 0)
MakeTime(hour, min) == hour * MinPerHour + min

MakeDate(day, time) == day * MinPerDay + time

\* Date.UTC(year, month, date, hours, minutes, 0, 0); any NaN argument
\* (undefined converts to NaN) gives NaN
DateUTC(year, month, date, hours, minutes) ==
    IF IsNum(year) /\ IsNum(month) /\ IsNum(date) /\ IsNum(hours) /\ IsNum(minutes)
    THEN Num(MakeDate(MakeDay(year.v, month.v, date.v), MakeTime(hours.v, minutes.v)))
    ELSE NaN

getUTCMinutes(d) == IF IsNum(d) THEN Num(MinFromTime(d.v)) ELSE NaN

getUTCHours(d) == IF IsNum(d) THEN Num(HourFromTime(d.v)) ELSE NaN

getUTCDate(d) == IF IsNum(d) THEN Num(DateFromTime(d.v)) ELSE NaN

getUTCMonth(d) == IF IsNum(d) THEN Num(MonthFromTime(d.v)) ELSE NaN

getUTCFullYear(d) == IF IsNum(d) THEN Num(YearFromTime(d.v)) ELSE NaN

\* setUTCMinutes with the minutes wrapped within the hour, no carry
setUTCMinutes_NoCarry(d, min) ==
    IF IsNum(d) /\ IsNum(min)
    THEN Num(MakeDate(Day(d.v), MakeTime(HourFromTime(d.v), min.v % MinPerHour)))
    ELSE NaN

\* Date.prototype.setUTCMinutes(min): the new time value
setUTCMinutes(d, min) ==
    IF IsNum(d) /\ IsNum(min)
    THEN Num(MakeDate(Day(d.v), MakeTime(HourFromTime(d.v), min.v)))
    ELSE NaN

\* Date.prototype.setUTCHours(hour)
setUTCHours(d, hour) ==
    IF IsNum(d) /\ IsNum(hour)
    THEN Num(MakeDate(Day(d.v), MakeTime(hour.v, MinFromTime(d.v))))
    ELSE NaN

\* Date.prototype.setUTCDate(date)
setUTCDate(d, date) ==
    IF IsNum(d) /\ IsNum(date)
    THEN Num(MakeDate(MakeDay(YearFromTime(d.v), MonthFromTime(d.v), date.v),
                      TimeWithinDay(d.v)))
    ELSE NaN

\* LocalTime(t) in a process whose getTimezoneOffset() is tz
LocalTime(t, tz) == t - tz

\* the local getters of a valid Date in a process with offset tz
getFullYear(d, tz) == Num(YearFromTime(LocalTime(d.v, tz)))

getMonth(d, tz) == Num(MonthFromTime(LocalTime(d.v, tz)))

getDate(d, tz) == Num(DateFromTime(LocalTime(d.v, tz)))

---------------------------------------------------------------------------
(* JavaScript strings taken apart by the code *)

Str(s) == [k |-> "str", s |-> s]

NoStr == [k |-> "undef", s |-> <<>>]

\* truthiness of an optional string: undefined and "" are falsy
StrTruthy(x) == x.k = "str" /\ x.s # <<>>

\* the form as useForm creates it: recurringMonths has no default value
NoForm == [recurringMonths |-> NoStr, odd |-> {}]

Digits == <<"0", "1", "2", "3", "4", "5", "6", "7", "8", "9">>

DigitVal(c) == (CHOOSE i \in 1..10 : Digits[i] = c) - 1

IsDigit(c) == \E i \in 1..10 : Digits[i] = c

IsDigits(s) == Len(s) > 0 /\ \A i \in 1..Len(s) : IsDigit(s[i])

RECURSIVE DecVal(_)
DecVal(s) ==
    IF s = <<>> THEN 0
    ELSE DecVal(SubSeq(s, 1, Len(s) - 1)) * 10 + DigitVal(s[Len(s)])

\* Number(s) for a string over digits, "-" and letters: the empty string is
\* 0, an optionally signed run of digits is its decimal value, the rest NaN
JSNumber(s) ==
    IF s = <<>> THEN Num(0)
    ELSE IF IsDigits(s) THEN Num(DecVal(s))
    ELSE IF Head(s) = "-" /\ IsDigits(Tail(s)) THEN Num(0 - DecVal(Tail(s)))
    ELSE NaN

\* s.split(':')
RECURSIVE SplitColon(_)
SplitColon(s) ==
    IF \E i \in 1..Len(s) : s[i] = ":"
    THEN LET i == CHOOSE j \in 1..Len(s) :
                      s[j] = ":" /\ \A l \in 1..(j - 1) : s[l] # ":"
         IN  <<SubSeq(s, 1, i - 1)>> \o SplitColon(SubSeq(s, i + 1, Len(s)))
    ELSE <<s>>

\* const [h, m] = startTime.split(':').map(Number): a missing second
\* element is undefined
ParseStartTime(s) ==
    LET parts == SplitColon(s)
    IN  [h |-> JSNumber(parts[1]),
         m |-> IF Len(parts) >= 2 THEN JSNumber(parts[2]) ELSE Undef]

---------------------------------------------------------------------------
(* server/routers.ts: calculateEndDate *)

\* the fallback written with || : a supplied 0 falls back too
EffectiveOffset_Or(userTimezoneOffset, tz) ==
    IF Truthy(userTimezoneOffset) THEN userTimezoneOffset ELSE Num(tz)

\* userTimezoneOffset ?? new Date().getTimezoneOffset()
EffectiveOffset(userTimezoneOffset, tz) ==
    IF userTimezoneOffset.k = "undef" THEN Num(tz) ELSE userTimezoneOffset

\* the shift applied with the opposite sign
NormalizedStart_Subtract(startDate, startTime, userTimezoneOffset, tz) ==
    LET tzOffset == EffectiveOffset(userTimezoneOffset, tz)
        year     == getFullYear(startDate, tz)
        month    == getMonth(startDate, tz)
        day      == getDate(startDate, tz)
        hm       == IF StrTruthy(startTime) THEN ParseStartTime(startTime.s)
                    ELSE [h |-> Num(0), m |-> Num(0)]
        utcDate  == DateUTC(year, month, day, hm.h, hm.m)
    IN  setUTCMinutes(utcDate, JSAdd(getUTCMinutes(utcDate),
                                     IF IsNum(tzOffset) THEN Num(0 - tzOffset.v) ELSE NaN))

\* the date as if the local time was UTC, shifted by the offset
NormalizedStart(startDate, startTime, userTimezoneOffset, tz) ==
    LET tzOffset == EffectiveOffset(userTimezoneOffset, tz)
        year     == getFullYear(startDate, tz)
        month    == getMonth(startDate, tz)
        day      == getDate(startDate, tz)
        hm       == IF StrTruthy(startTime) THEN ParseStartTime(startTime.s)
                    ELSE [h |-> Num(0), m |-> Num(0)]
        utcDate  == DateUTC(year, month, day, hm.h, hm.m)
    IN  setUTCMinutes(utcDate, JSAdd(getUTCMinutes(utcDate), tzOffset))

\* the duration switch with the 'days' case adding hours
ApplyDuration_DaysAsHours(utcDate, durationValue, durationUnit) ==
    IF Truthy(durationValue) /\ durationUnit # "none"
    THEN CASE durationUnit = "minutes" ->
                  setUTCMinutes(utcDate, JSAdd(getUTCMinutes(utcDate), durationValue))
           [] durationUnit = "hours" ->
                  setUTCHours(utcDate, JSAdd(getUTCHours(utcDate), durationValue))
           [] durationUnit = "days" ->
                  setUTCHours(utcDate, JSAdd(getUTCHours(utcDate), durationValue))
           [] OTHER -> utcDate
    ELSE utcDate

\* the duration switch, applied to the shifted date
ApplyDuration(utcDate, durationValue, durationUnit) ==
    IF Truthy(durationValue) /\ durationUnit # "none"
    THEN CASE durationUnit = "minutes" ->
                  setUTCMinutes(utcDate, JSAdd(getUTCMinutes(utcDate), durationValue))
           [] durationUnit = "hours" ->
                  setUTCHours(utcDate, JSAdd(getUTCHours(utcDate), durationValue))
           [] durationUnit = "days" ->
                  setUTCDate(utcDate, JSAdd(getUTCDate(utcDate), durationValue))
           [] OTHER -> utcDate
    ELSE utcDate

calculateEndDate(startDate, startTime, durationValue, durationUnit, userTimezoneOffset, tz) ==
    ApplyDuration(NormalizedStart(startDate, startTime, userTimezoneOffset, tz),
                  durationValue, durationUnit)

---------------------------------------------------------------------------
(* Inputs *)

\* calendar days a user may pick: [y, m, d] with m counted from 0 as in
\* JavaScript; a mid-month day, month ends, a leap day and the year's end
CivilDates ==
    { [y |-> 2025, m |-> 0, d |-> 15], [y |-> 2025, m |-> 0, d |-> 31],
      [y |-> 2024, m |-> 1, d |-> 29], [y |-> 2025, m |-> 11, d |-> 31] }

UTCMidnight(cd) == MakeDate(MakeDay(cd.y, cd.m, cd.d), 0)

\* zone offsets (minutes west of UTC) of servers and clients: UTC, EST, CET
ZoneOffsets == {0, 300, 0 - 60}

\* the Date a client submits for a picked day: UTC midnight of that day
\* (an <input type="date"> read with valueAsDate), or midnight of that day
\* in the server's own zone (new Date(y, m, d), as the test suites build it)
StartDates(tz) == { Num(UTCMidnight(cd) + s) : cd \in CivilDates, s \in {0, tz} }

\* String(h).padStart(2, '0') + ":" + String(m).padStart(2, '0')
TimeString(h, m) ==
    <<Digits[(h \div 10) + 1], Digits[(h % 10) + 1], ":",
      Digits[(m \div 10) + 1], Digits[(m % 10) + 1]>>

MinuteSamples == {0, 30, 59}

ValidTimes == { TimeString(h, m) : h \in 0..23, m \in MinuteSamples }

\* strings that are not a clock time hh:mm in 00:00..23:59
MalformedTimes ==
    { <<"2", "5", ":", "0", "0">>, <<"1", "2", ":", "7", "5">>,
      <<"-", "1", ":", "0", "0">>, <<"a", "b">>, <<"1", "4">>,
      <<"1", "4", ":", "x">> }

\* startTime: undefined, "" (the form's "Select time"), or a string
StartTimes == {NoStr, Str(<<>>)} \cup { Str(s) : s \in ValidTimes \cup MalformedTimes }

MaxDur == 2

DurationUnits == {"minutes", "hours", "days"}

\* (durationValue, durationUnit): both absent, a positive whole duration,
\* a zero or negative value, or a value without a unit
Durations ==
    { [v |-> Undef, u |-> "none"], [v |-> Num(0), u |-> "hours"],
      [v |-> Num(0 - 1), u |-> "hours"], [v |-> Num(2), u |-> "none"] }
    \cup { [v |-> Num(n), u |-> u] : n \in 1..MaxDur, u \in DurationUnits }

\* userTimezoneOffset: undefined or a zone offset
Offsets == {Undef} \cup { Num(o) : o \in ZoneOffsets \cup {0 - 720} }

---------------------------------------------------------------------------
(* A direct call of calculateEndDate, as the test suites make it *)

NoArgs ==
    [startDate |-> Num(0), startTime |-> NoStr, durationValue |-> Undef,
     durationUnit |-> "none", userTimezoneOffset |-> Undef]

CalcInit ==
    /\ serverTz \in ZoneOffsets
    /\ calcArgs \in
           { [startDate |-> sd, startTime |-> st, durationValue |-> du.v,
              durationUnit |-> du.u, userTimezoneOffset |-> o] :
                 sd \in StartDates(serverTz), st \in StartTimes,
                 du \in Durations, o \in Offsets }
    /\ calcResult = Undef
    /\ calcPc = "ready"
    /\ events = <<>>
    /\ nextId = 1
    /\ clock = 0
    /\ lastResult = [op |-> "none"]
    /\ inflight = <<>>
    /\ db = TRUE
    /\ form = NoForm

Calculate ==
    /\ calcPc = "ready"
    /\ calcResult' = calculateEndDate(calcArgs.startDate, calcArgs.startTime,
                                      calcArgs.durationValue, calcArgs.durationUnit,
                                      calcArgs.userTimezoneOffset, serverTz)
    /\ calcPc' = "done"
    /\ UNCHANGED <<events, nextId, clock, serverTz, lastResult, calcArgs, inflight, db, form>>

CalcNext == Calculate

SpecCalc == CalcInit /\ [][CalcNext]_vars

---------------------------------------------------------------------------
(* events.submit over the events table *)

\* the number of submissions explored
MaxCalls == 1

\* ctx.user: undefined for a request without a session
Anonymous == [id |-> 0, role |-> "none"]

Callers ==
    { Anonymous, [id |-> 1, role |-> "user"],
      [id |-> 2, role |-> "representative"], [id |-> 3, role |-> "admin"] }

\* the submitted Date of the picked day: UTC midnight of 2025-01-15
SubmitDate == Num(UTCMidnight([y |-> 2025, m |-> 0, d |-> 15]))

SubmitTimes ==
    { NoStr, Str(TimeString(14, 0)), Str(<<"2", "5", ":", "0", "0">>),
      Str(<<"a", "b">>) }

SubmitDurations ==
    { [v |-> Undef, u |-> "none"], [v |-> Num(2), u |-> "hours"],
      [v |-> Num(0 - 3), u |-> "hours"] }

SubmitOffsets == { Undef, Num(300), Num(0 - 60) }

\* an explicit end: none, two hours after the start date, an hour before it
SubmitEnds == { Undef, Num(SubmitDate.v + 120), Num(SubmitDate.v - 60) }

\* the temporal fields of a submission; one input carries an Invalid Date
SubmitInputs ==
    { [startDate |-> SubmitDate, endDate |-> ed, startTime |-> st,
       durationValue |-> du.v, durationUnit |-> du.u, userTimezoneOffset |-> o] :
          ed \in SubmitEnds, st \in SubmitTimes, du \in SubmitDurations,
          o \in SubmitOffsets }
    \cup { [startDate |-> NaN, endDate |-> Undef, startTime |-> NoStr,
            durationValue |-> Undef, durationUnit |-> "none",
            userTimezoneOffset |-> Undef] }

\* eventInputSchema, the temporal fields: z.date() rejects an Invalid Date,
\* z.number() rejects NaN, startTime is any string
eventInputSchema(input) ==
    /\ IsNum(input.startDate)
    /\ input.endDate.k \in {"num", "undef"}
    /\ input.durationValue.k \in {"num", "undef"}
    /\ input.durationUnit \in DurationUnits \cup {"none"}
    /\ input.userTimezoneOffset.k \in {"num", "undef"}

\* auto-approval granted to admins only
isRepresentative_AdminOnly(caller) == caller.role = "admin"

\* ctx.user?.role === "representative" || ctx.user?.role === "admin"
isRepresentative(caller) == caller.role = "representative" \/ caller.role = "admin"

\* the session-less caller recorded as user 0
userId_Zero(caller) == Num(caller.id)

\* ctx.user?.id
userId(caller) == IF caller.role = "none" THEN Undef ELSE Num(caller.id)

\* the end always computed from the start, whether or not a duration came
SubmitEndDate_AlwaysCalculated(input, tz) ==
    calculateEndDate(input.startDate, input.startTime, input.durationValue,
                     input.durationUnit, input.userTimezoneOffset, tz)

\* an explicit end date preferred over the duration
SubmitEndDate_EndFirst(input, tz) ==
    IF input.endDate # Undef THEN input.endDate
    ELSE calculateEndDate(input.startDate, input.startTime, input.durationValue,
                          input.durationUnit, input.userTimezoneOffset, tz)

\* the endDate handed to createEvent
SubmitEndDate(input, tz) ==
    IF Truthy(input.durationValue) /\ input.durationUnit # "none"
    THEN calculateEndDate(input.startDate, input.startTime, input.durationValue,
                          input.durationUnit, input.userTimezoneOffset, tz)
    ELSE input.endDate

\* a field of the parsed input: its value when the key is present, else the
\* schema's default (or the column's NULL)
Opt(input, f, dflt) == IF f \in DOMAIN input THEN input[f] ELSE dflt

\* the row createEvent inserts: the input's columns, then the overrides
NewRow(id, input, caller, now, tz) ==
    [id              |-> id,
     startDate       |-> input.startDate,
     endDate         |-> SubmitEndDate(input, tz),
     status          |-> IF isRepresentative(caller) THEN "approved" ELSE "pending",
     submittedBy     |-> userId(caller),
     submittedAt     |-> Num(now),
     approvedBy      |-> IF isRepresentative(caller) THEN userId(caller) ELSE Undef,
     approvedAt      |-> IF isRepresentative(caller) THEN Num(now) ELSE Undef,
     rejectionReason |-> NoStr,
     name             |-> Opt(input, "name", "Event"),
     eventType        |-> Opt(input, "eventType", "other"),
     isRecurring      |-> Opt(input, "isRecurring", 0),
     recurringPattern |-> Opt(input, "recurringPattern", NoStr),
     recurringMonths  |-> Opt(input, "recurringMonths", NoStr),
     updatedAt        |-> Num(now)]

Response(op, caller, input, ok, error, id, status) ==
    [op |-> op, caller |-> caller, input |-> input, ok |-> ok, error |-> error,
     id |-> id, status |-> status]

\* events.submit: input validation, then createEvent (insert, read back).
\* An Invalid Date handed to the driver either makes the insert throw or
\* is stored as an invalid timestamp, depending on driver and SQL mode.
\* A call that passes validation reads the wall clock.  Without a
\* connection createEvent throws "Database not available".
SubmitCall(caller, input) ==
    /\ IF ~eventInputSchema(input)
       THEN /\ lastResult' = Response("submit", caller, input, FALSE, "BAD_REQUEST", 0, "none")
            /\ UNCHANGED <<events, nextId, clock>>
       ELSE IF ~db
       THEN /\ lastResult' = Response("submit", caller, input, FALSE,
                                      "INTERNAL_SERVER_ERROR", 0, "none")
            /\ UNCHANGED <<events, nextId, clock>>
       ELSE /\ clock' = clock + 1
            /\ \E row \in { NewRow(nextId, input, caller, clock', serverTz) } :
                   \/ /\ events' = [i \in DOMAIN events \cup {nextId} |->
                                        IF i = nextId THEN row ELSE events[i]]
                      /\ nextId' = nextId + 1
                      /\ lastResult' = Response("submit", caller, input, TRUE, "none",
                                                 row.id, row.status)
                   \/ /\ row.endDate = NaN
                      /\ lastResult' = Response("submit", caller, input, FALSE,
                                                 "INTERNAL_SERVER_ERROR", 0, "none")
                      /\ UNCHANGED <<events, nextId>>
    /\ UNCHANGED <<serverTz, calcArgs, calcResult, calcPc, inflight, db, form>>

\* events.submit within the explored number of submissions
Submit(caller, input) ==
    /\ clock < MaxCalls
    /\ SubmitCall(caller, input)

Init ==
    /\ events = <<>>
    /\ nextId = 1
    /\ clock = 0
    /\ serverTz \in ZoneOffsets
    /\ lastResult = [op |-> "none"]
    /\ calcArgs = NoArgs
    /\ calcResult = Undef
    /\ calcPc = "ready"
    /\ inflight = <<>>
    /\ db = TRUE
    /\ form = NoForm

Next == \E caller \in Callers, input \in SubmitInputs : Submit(caller, input)

Spec == Init /\ [][Next]_vars

---------------------------------------------------------------------------
(* Moderation: the admin procedures and updateOwn over the events table *)

\* the number of table writes (INSERT, UPDATE, DELETE) explored
MaxWrites == 3

\* the middleware lets every signed-in user through
adminProcedure_AnyUser(caller) == caller.role # "none"

\* adminProcedure: ctx.user.role !== "admin" throws FORBIDDEN.  It extends
\* protectedProcedure, which only lets requests with a session reach it.
adminProcedure(caller) == caller.role = "admin"

\* a SELECT without its WHERE clause: the first row of the table
getEventById_NoWhere(id) ==
    IF DOMAIN events # {} THEN events[CHOOSE i \in DOMAIN events : \A j \in DOMAIN events : i <= j]
    ELSE Undef

\* getEventById: undefined without a connection, else the row or undefined
getEventById(id) == IF ~db THEN Undef ELSE IF id \in DOMAIN events THEN events[id] ELSE Undef

\* an UPDATE that leaves a set approvedBy as it is
SetColumns_KeepApprover(row, updates, now) ==
    [f \in DOMAIN row |->
        IF f = "approvedBy" /\ row[f] # Undef THEN row[f]
        ELSE IF f \in DOMAIN updates THEN updates[f]
        ELSE IF f = "updatedAt" THEN Num(now)
        ELSE row[f]]

\* db.update(events).set({ ...updates, updatedAt: new Date() }): one UPDATE
\* statement writes the named columns and updatedAt, the others stay
SetColumns(row, updates, now) ==
    [f \in DOMAIN row |->
        IF f \in DOMAIN updates THEN updates[f]
        ELSE IF f = "updatedAt" THEN Num(now)
        ELSE row[f]]

\* updateEvent(id, updates): nothing without a connection, else
\* UPDATE ... WHERE id = ?
updateEvent(id, updates, now) ==
    IF ~db THEN events' = events
    ELSE events' = [i \in DOMAIN events |->
                       IF i = id THEN SetColumns(events[i], updates, now) ELSE events[i]]

\* approval that keeps the first approval's time
approveEvent_NoStamp(approvedBy, now) ==
    [status |-> "approved", approvedBy |-> Num(approvedBy)]

\* approveEvent: the columns it hands to updateEvent
approveEvent(approvedBy, now) ==
    [status |-> "approved", approvedBy |-> Num(approvedBy), approvedAt |-> Num(now)]

\* rejection that records no moderator
rejectEvent_NoApprover(approvedBy, reason, now) ==
    [status |-> "rejected", rejectionReason |-> reason]

\* rejectEvent: the columns it hands to updateEvent
rejectEvent(approvedBy, reason, now) ==
    [status |-> "rejected", approvedBy |-> Num(approvedBy), approvedAt |-> Num(now),
     rejectionReason |-> reason]

\* deleteEvent(id): nothing without a connection, else DELETE ... WHERE id = ?
deleteEvent(id) ==
    IF ~db THEN events' = events
    ELSE events' = [i \in DOMAIN events \ {id} |-> events[i]]

\* z.object({ id, reason: z.string().min(1) })
rejectInputSchema(input) == StrTruthy(input.reason)

\* updateEventSchema: z.date() rejects an Invalid Date
updateEventSchema(input) ==
    "startDate" \in DOMAIN input => IsNum(input.startDate)

\* const { id, ...updates } = input, undefined values dropped
updateData(input) ==
    [f \in DOMAIN input \ {"id"} |-> input[f]]

Reply(op, caller, input, ok, error) ==
    [op |-> op, caller |-> caller, input |-> input, ok |-> ok, error |-> error]

\* a call that throws: nothing is written
Throw(op, caller, input, error) ==
    /\ lastResult' = Reply(op, caller, input, FALSE, error)
    /\ UNCHANGED <<events, nextId, clock>>

\* events.approve
Approve(caller, id) ==
    /\ IF ~adminProcedure(caller)
       THEN Throw("approve", caller, [id |-> id], "FORBIDDEN")
       ELSE IF getEventById(id) = Undef
       THEN Throw("approve", caller, [id |-> id], "NOT_FOUND")
       ELSE /\ clock < MaxWrites
            /\ clock' = clock + 1
            /\ updateEvent(id, approveEvent(caller.id, clock'), clock')
            /\ lastResult' = Reply("approve", caller, [id |-> id], TRUE, "none")
            /\ UNCHANGED nextId
    /\ UNCHANGED <<serverTz, calcArgs, calcResult, calcPc, inflight, db, form>>

\* events.reject
Reject(caller, id, reason) ==
    /\ LET input == [id |-> id, reason |-> reason] IN
       IF ~adminProcedure(caller)
       THEN Throw("reject", caller, input, "FORBIDDEN")
       ELSE IF ~rejectInputSchema(input)
       THEN Throw("reject", caller, input, "BAD_REQUEST")
       ELSE IF getEventById(id) = Undef
       THEN Throw("reject", caller, input, "NOT_FOUND")
       ELSE /\ clock < MaxWrites
            /\ clock' = clock + 1
            /\ updateEvent(id, rejectEvent(caller.id, reason, clock'), clock')
            /\ lastResult' = Reply("reject", caller, input, TRUE, "none")
            /\ UNCHANGED nextId
    /\ UNCHANGED <<serverTz, calcArgs, calcResult, calcPc, inflight, db, form>>

\* events.update
Update(caller, input) ==
    /\ IF ~adminProcedure(caller)
       THEN Throw("update", caller, input, "FORBIDDEN")
       ELSE IF ~updateEventSchema(input)
       THEN Throw("update", caller, input, "BAD_REQUEST")
       ELSE IF getEventById(input.id) = Undef
       THEN Throw("update", caller, input, "NOT_FOUND")
       ELSE /\ clock < MaxWrites
            /\ clock' = clock + 1
            /\ updateEvent(input.id, updateData(input), clock')
            /\ lastResult' = Reply("update", caller, input, TRUE, "none")
            /\ UNCHANGED nextId
    /\ UNCHANGED <<serverTz, calcArgs, calcResult, calcPc, inflight, db, form>>

\* a row nobody is recorded as submitter of may be edited by anyone
mayEdit_Unowned(event, caller) ==
    event.submittedBy \in {Undef, Num(caller.id)} \/ caller.role = "admin"

\* the negation of: event.submittedBy !== ctx.user.id && ctx.user.role !== "admin"
mayEdit(event, caller) ==
    ~(event.submittedBy # Num(caller.id) /\ caller.role # "admin")

\* events.updateOwn, a protectedProcedure: any signed-in caller
UpdateOwn(caller, input) ==
    /\ caller.role # "none"
    /\ IF ~updateEventSchema(input)
       THEN Throw("updateOwn", caller, input, "BAD_REQUEST")
       ELSE IF getEventById(input.id) = Undef
       THEN Throw("updateOwn", caller, input, "NOT_FOUND")
       ELSE IF ~mayEdit(getEventById(input.id), caller)
       THEN Throw("updateOwn", caller, input, "FORBIDDEN")
       ELSE /\ clock < MaxWrites
            /\ clock' = clock + 1
            /\ updateEvent(input.id, updateData(input), clock')
            /\ lastResult' = Reply("updateOwn", caller, input, TRUE, "none")
            /\ UNCHANGED nextId
    /\ UNCHANGED <<serverTz, calcArgs, calcResult, calcPc, inflight, db, form>>

\* events.delete
Delete(caller, id) ==
    /\ IF ~adminProcedure(caller)
       THEN Throw("delete", caller, [id |-> id], "FORBIDDEN")
       ELSE IF getEventById(id) = Undef
       THEN Throw("delete", caller, [id |-> id], "NOT_FOUND")
       ELSE /\ clock < MaxWrites
            /\ deleteEvent(id)
            /\ clock' = clock + 1
            /\ lastResult' = Reply("delete", caller, [id |-> id], TRUE, "none")
            /\ UNCHANGED nextId
    /\ UNCHANGED <<serverTz, calcArgs, calcResult, calcPc, inflight, db, form>>

---------------------------------------------------------------------------
(* The public reads: events.getById, events.list and the two feeds.  A    *)
(* result set is the set of returned rows; the default limit of 50 rows  *)
(* is above every table explored here.                                    *)

\* every row that is not rejected is published
getApprovedEvents_NotRejected ==
    { events[i] : i \in { j \in DOMAIN events : events[j].status # "rejected" } }

\* getApprovedEvents without filters: no rows without a connection, else
\* WHERE status = 'approved'
getApprovedEvents ==
    IF ~db THEN {} ELSE
    { events[i] : i \in { j \in DOMAIN events : events[j].status = "approved" } }

\* generateRSSFeed: select().from(events).where(eq(events.status, "approved"))
generateRSSFeed ==
    { events[i] : i \in { j \in DOMAIN events : events[j].status = "approved" } }

\* getPendingEvents: no rows without a connection, else the given status,
\* or pending and rejected
getPendingEvents(status) ==
    IF ~db THEN {} ELSE
    { events[i] : i \in { j \in DOMAIN events :
                            IF status = "none"
                            THEN events[j].status \in {"pending", "rejected"}
                            ELSE events[j].status = status } }

Rows(op, caller, rows) ==
    [op |-> op, caller |-> caller, ok |-> TRUE, error |-> "none", events |-> rows]

Unwritten == UNCHANGED <<events, nextId, clock, serverTz, calcArgs, calcResult, calcPc,
                         inflight, db, form>>

\* events.getById: !event || event.status !== "approved" throws NOT_FOUND
GetById(caller, id) ==
    /\ LET event == getEventById(id) IN
       IF event = Undef \/ event.status # "approved"
       THEN lastResult' = [op |-> "getById", caller |-> caller, input |-> [id |-> id],
                           ok |-> FALSE, error |-> "NOT_FOUND", event |-> Undef]
       ELSE lastResult' = [op |-> "getById", caller |-> caller, input |-> [id |-> id],
                           ok |-> TRUE, error |-> "none", event |-> event]
    /\ Unwritten

\* events.list without filters
List(caller) ==
    /\ lastResult' = Rows("list", caller, getApprovedEvents)
    /\ Unwritten

\* handleRSSFeed: generateRSSFeed throws without a connection, and the
\* handler answers 500
RSSFeed ==
    /\ IF ~db
       THEN lastResult' = [op |-> "rss", caller |-> Anonymous, ok |-> FALSE,
                           error |-> "INTERNAL_SERVER_ERROR", events |-> {}]
       ELSE lastResult' = Rows("rss", Anonymous, generateRSSFeed)
    /\ Unwritten

\* handleCalendarFeed
CalendarFeed ==
    /\ lastResult' = Rows("ical", Anonymous, getApprovedEvents)
    /\ Unwritten

\* events.listPending
ListPending(caller, status) ==
    /\ IF ~adminProcedure(caller)
       THEN lastResult' = Reply("listPending", caller, [status |-> status], FALSE, "FORBIDDEN")
       ELSE lastResult' = Rows("listPending", caller, getPendingEvents(status))
    /\ Unwritten

---------------------------------------------------------------------------
(* The moderation life cycle: submissions, the moderators' calls, the     *)
(* submitter's edits and the public reads                                 *)

Admin4 == [id |-> 4, role |-> "admin"]

\* the signed-in callers: those of the submission, and a second admin
SignedIn == (Callers \ {Anonymous}) \cup {Admin4}

Submitters == { Anonymous, [id |-> 1, role |-> "user"], [id |-> 2, role |-> "representative"] }

\* a submission with no start time, end or duration
PlainInput ==
    [startDate |-> SubmitDate, endDate |-> Undef, startTime |-> NoStr,
     durationValue |-> Undef, durationUnit |-> "none", userTimezoneOffset |-> Undef,
     name |-> "Event"]

\* the first row, and an id no row ever has
TargetIds == {1, 999}

Spam == Str(<<"s", "p", "a", "m">>)

Reasons == { Spam, Str(<<>>) }

\* a rename, and an update carrying an Invalid Date
Updates(id) == { [id |-> id, name |-> "Renamed"], [id |-> id, startDate |-> NaN] }

ListStatuses == {"none", "pending", "rejected"}

ModInit == Init /\ serverTz = 0

ModNext ==
    \/ \E caller \in Submitters : clock < MaxWrites /\ SubmitCall(caller, PlainInput)
    \/ \E caller \in SignedIn, id \in TargetIds : Approve(caller, id)
    \/ \E caller \in SignedIn, id \in TargetIds, reason \in Reasons :
           Reject(caller, id, reason)
    \/ \E caller \in SignedIn, id \in TargetIds : \E input \in Updates(id) :
           Update(caller, input)
    \/ \E caller \in SignedIn, id \in TargetIds : \E input \in Updates(id) :
           UpdateOwn(caller, input)
    \/ \E caller \in SignedIn, id \in TargetIds : Delete(caller, id)
    \/ \E id \in TargetIds : GetById(Anonymous, id)
    \/ List(Anonymous)
    \/ RSSFeed
    \/ CalendarFeed
    \/ \E caller \in SignedIn, status \in ListStatuses : ListPending(caller, status)

SpecMod == ModInit /\ [][ModNext]_vars

---------------------------------------------------------------------------
(* The same procedures in a server process that has no connection: getDb() *)
(* returns null for the life of the process, while the table holds a       *)
(* published row.                                                           *)

DownInit ==
    /\ events = [i \in {1} |-> NewRow(1, PlainInput, [id |-> 2, role |-> "representative"], 1, 0)]
    /\ nextId = 2
    /\ clock = 1
    /\ serverTz = 0
    /\ lastResult = [op |-> "none"]
    /\ calcArgs = NoArgs
    /\ calcResult = Undef
    /\ calcPc = "ready"
    /\ inflight = <<>>
    /\ db = FALSE
    /\ form = NoForm

DownNext ==
    \/ \E caller \in Callers, input \in SubmitInputs : SubmitCall(caller, input)
    \/ \E caller \in SignedIn, id \in TargetIds : Approve(caller, id)
    \/ \E caller \in SignedIn, id \in TargetIds, reason \in Reasons :
           Reject(caller, id, reason)
    \/ \E caller \in SignedIn, id \in TargetIds : \E input \in Updates(id) :
           Update(caller, input)
    \/ \E caller \in SignedIn, id \in TargetIds : \E input \in Updates(id) :
           UpdateOwn(caller, input)
    \/ \E caller \in SignedIn, id \in TargetIds : Delete(caller, id)
    \/ \E id \in TargetIds : GetById(Anonymous, id)
    \/ List(Anonymous)
    \/ RSSFeed
    \/ CalendarFeed
    \/ \E caller \in SignedIn, status \in ListStatuses : ListPending(caller, status)

SpecDown == DownInit /\ [][DownNext]_vars

---------------------------------------------------------------------------
(* Two moderation calls on one row in flight at the same time.  A handler *)
(* yields at each await: after getEventById, and inside updateEvent       *)
(* before the UPDATE statement, which the database applies atomically.    *)

\* the two admins whose calls overlap
Racers == {3, 4}

\* the row the calls target: a stored submission, possibly rejected before
RaceRows ==
    LET pending  == NewRow(1, PlainInput, Anonymous, 1, 0)
        approved == NewRow(1, PlainInput, [id |-> 2, role |-> "representative"], 1, 0)
    IN  { pending, approved, SetColumns(pending, rejectEvent(3, Spam, 2), 2) }

RaceOps == { <<"approve", "approve">>, <<"approve", "reject">>, <<"reject", "approve">> }

RaceInit ==
    /\ \E row \in RaceRows : events = [i \in {1} |-> row]
    /\ nextId = 2
    /\ clock = 2
    /\ serverTz = 0
    /\ lastResult = [op |-> "none"]
    /\ calcArgs = NoArgs
    /\ calcResult = Undef
    /\ calcPc = "ready"
    /\ \E ops \in RaceOps :
          inflight = [a \in Racers |->
                         [op |-> IF a = 3 THEN ops[1] ELSE ops[2], id |-> 1, pc |-> "called",
                          columns |-> <<>>, writtenAt |-> 0, result |-> "none"]]
    /\ db = TRUE
    /\ form = NoForm

RaceUnchanged == UNCHANGED <<nextId, serverTz, lastResult, calcArgs, calcResult, calcPc, db, form>>

\* const event = await getEventById(input.id); if (!event) throw NOT_FOUND
RaceLookup(a) ==
    /\ inflight[a].pc = "called"
    /\ inflight' = [inflight EXCEPT ![a].pc = IF getEventById(inflight[a].id) = Undef
                                              THEN "done" ELSE "found",
                                    ![a].result = IF getEventById(inflight[a].id) = Undef
                                                  THEN "NOT_FOUND" ELSE "none"]
    /\ UNCHANGED <<events, clock>>
    /\ RaceUnchanged

\* approveEvent / rejectEvent build their columns, approvedAt: new Date(),
\* and updateEvent awaits getDb()
RaceStamp(a) ==
    /\ inflight[a].pc = "found"
    /\ inflight[a].op \in {"approve", "reject"}
    /\ clock' = clock + 1
    /\ inflight' = [inflight EXCEPT ![a].pc = "stamped",
                                    ![a].columns = IF inflight[a].op = "approve"
                                                   THEN approveEvent(a, clock')
                                                   ELSE rejectEvent(a, Spam, clock')]
    /\ UNCHANGED events
    /\ RaceUnchanged

\* await db.update(events).set({ ...updates, updatedAt: new Date() }).where(...)
RaceWrite(a) ==
    /\ inflight[a].pc = "stamped"
    /\ clock' = clock + 1
    /\ updateEvent(inflight[a].id, inflight[a].columns, clock')
    /\ inflight' = [inflight EXCEPT ![a].pc = "written", ![a].writtenAt = clock']
    /\ RaceUnchanged

\* return { success: true, ... }
RaceReturn(a) ==
    /\ inflight[a].pc = "written"
    /\ inflight' = [inflight EXCEPT ![a].pc = "done", ![a].result = "success"]
    /\ UNCHANGED <<events, clock>>
    /\ RaceUnchanged

RaceNext ==
    \E a \in Racers :
        \/ RaceLookup(a)
        \/ RaceStamp(a)
        \/ RaceWrite(a)
        \/ RaceReturn(a)

SpecRace == RaceInit /\ [][RaceNext]_vars

---------------------------------------------------------------------------
(* A moderation call and events.delete on one row in flight at the same   *)
(* time.  events.delete yields after getEventById, before the DELETE.     *)

DeleteRaceInit ==
    /\ \E row \in RaceRows : events = [i \in {1} |-> row]
    /\ nextId = 2
    /\ clock = 2
    /\ serverTz = 0
    /\ lastResult = [op |-> "none"]
    /\ calcArgs = NoArgs
    /\ calcResult = Undef
    /\ calcPc = "ready"
    /\ \E ops \in { <<"approve", "delete">>, <<"reject", "delete">>, <<"delete", "approve">> } :
          inflight = [a \in Racers |->
                         [op |-> IF a = 3 THEN ops[1] ELSE ops[2], id |-> 1, pc |-> "called",
                          columns |-> <<>>, writtenAt |-> 0, result |-> "none"]]
    /\ db = TRUE
    /\ form = NoForm

\* await deleteEvent(input.id): the DELETE statement, at the next tick
RaceDelete(a) ==
    /\ inflight[a].pc = "found"
    /\ inflight[a].op = "delete"
    /\ clock' = clock + 1
    /\ deleteEvent(inflight[a].id)
    /\ inflight' = [inflight EXCEPT ![a].pc = "written", ![a].writtenAt = clock']
    /\ RaceUnchanged

DeleteRaceNext ==
    \E a \in Racers :
        \/ RaceLookup(a)
        \/ RaceStamp(a)
        \/ RaceWrite(a)
        \/ RaceDelete(a)
        \/ RaceReturn(a)

SpecDeleteRace == DeleteRaceInit /\ [][DeleteRaceNext]_vars

---------------------------------------------------------------------------
(* Submissions in flight at the same time, each either passing validation *)
(* or carrying an Invalid Date.  events.submit builds the row              *)
(* (reading the clock), createEvent awaits the INSERT, which hands back    *)
(* the AUTO_INCREMENT id, then awaits the SELECT of that id.               *)

\* the callers whose submissions overlap, by ctx.user id (0: no session)
SubmitRacers == { Anonymous, [id |-> 1, role |-> "user"], [id |-> 2, role |-> "representative"] }

\* the row read back is the newest row of the table
selectCreated_Latest(insertId) == events[nextId - 1]

\* db.select().from(events).where(eq(events.id, eventId)).limit(1)
selectCreated(insertId) == events[insertId]

SubInit ==
    /\ events = <<>>
    /\ nextId = 1
    /\ clock = 0
    /\ serverTz = 0
    /\ lastResult = [op |-> "none"]
    /\ calcArgs = NoArgs
    /\ calcResult = Undef
    /\ calcPc = "ready"
    /\ inflight \in [ {c.id : c \in SubmitRacers} ->
                        { [input |-> i, pc |-> "called", now |-> 0, insertId |-> 0,
                           result |-> [ok |-> FALSE, error |-> "none", id |-> 0,
                                       status |-> "none"]] :
                             i \in { PlainInput, [PlainInput EXCEPT !.startDate = NaN] } } ]
    /\ db = TRUE
    /\ form = NoForm

CallerOf(a) == CHOOSE c \in SubmitRacers : c.id = a

\* input parsing, then the createEvent arguments with their new Date()
SubValidate(a) ==
    /\ inflight[a].pc = "called"
    /\ IF ~eventInputSchema(inflight[a].input)
       THEN /\ inflight' = [inflight EXCEPT ![a].pc = "done",
                                            ![a].result.error = "BAD_REQUEST"]
            /\ UNCHANGED clock
       ELSE /\ clock' = clock + 1
            /\ inflight' = [inflight EXCEPT ![a].pc = "validated", ![a].now = clock']
    /\ UNCHANGED events
    /\ RaceUnchanged

\* const result = await db.insert(events).values(event); insertId
SubInsert(a) ==
    /\ inflight[a].pc = "validated"
    /\ events' = [i \in DOMAIN events \cup {nextId} |->
                     IF i = nextId
                     THEN NewRow(nextId, inflight[a].input, CallerOf(a), inflight[a].now, serverTz)
                     ELSE events[i]]
    /\ inflight' = [inflight EXCEPT ![a].pc = "inserted", ![a].insertId = nextId]
    /\ nextId' = nextId + 1
    /\ UNCHANGED <<clock, serverTz, lastResult, calcArgs, calcResult, calcPc, db, form>>

\* the SELECT of the inserted id, and return { id: event.id, status: event.status }
SubSelect(a) ==
    /\ inflight[a].pc = "inserted"
    /\ LET created == selectCreated(inflight[a].insertId) IN
       inflight' = [inflight EXCEPT ![a].pc = "done",
                                    ![a].result = [ok |-> TRUE, error |-> "none",
                                                   id |-> created.id,
                                                   status |-> created.status]]
    /\ UNCHANGED <<events, clock>>
    /\ RaceUnchanged

SubNext ==
    \E c \in SubmitRacers :
        \/ SubValidate(c.id)
        \/ SubInsert(c.id)
        \/ SubSelect(c.id)

SpecSubmitRace == SubInit /\ [][SubNext]_vars

---------------------------------------------------------------------------
(* Recurring monthly meetings: the pattern and months strings of a        *)
(* submission, as the form and the test suite build and read them         *)

\* the decimal digits of a natural number below 100
DecStr(n) == IF n < 10 THEN <<Digits[n + 1]>> ELSE <<Digits[(n \div 10) + 1], Digits[(n % 10) + 1]>>

RECURSIVE JoinComma(_)
JoinComma(parts) ==
    IF parts = <<>> THEN <<>>
    ELSE IF Len(parts) = 1 THEN parts[1]
    ELSE parts[1] \o <<",">> \o JoinComma(Tail(parts))

\* JSON.stringify of an array of month numbers
JSONStringify(months) ==
    <<"[">> \o JoinComma([i \in 1..Len(months) |-> DecStr(months[i])]) \o <<"]">>

RECURSIVE SplitComma(_)
SplitComma(s) ==
    IF \E i \in 1..Len(s) : s[i] = ","
    THEN LET i == CHOOSE j \in 1..Len(s) :
                      s[j] = "," /\ \A l \in 1..(j - 1) : s[l] # ","
         IN  <<SubSeq(s, 1, i - 1)>> \o SplitComma(SubSeq(s, i + 1, Len(s)))
    ELSE <<s>>

\* JSON.parse of an array of unsigned integers: the sequence of its
\* numbers, or <<-1>> where the text is no such array
JSONParse(s) ==
    IF Len(s) < 2 \/ s[1] # "[" \/ s[Len(s)] # "]" THEN <<0 - 1>>
    ELSE LET body  == SubSeq(s, 2, Len(s) - 1)
             parts == SplitComma(body)
         IN  IF body = <<>> THEN <<>>
             ELSE IF \A i \in 1..Len(parts) : IsDigits(parts[i])
             THEN [i \in 1..Len(parts) |-> DecVal(parts[i])]
             ELSE <<0 - 1>>

\* recurringPattern values: two the form offers, one in capitals, and three
\* that name no ordinal or no weekday
PatternStrings ==
    { <<"2", "n", "d", "-", "m", "o", "n", "d", "a", "y">>,
      <<"l", "a", "s", "t", "-", "f", "r", "i", "d", "a", "y">>,
      <<"2", "N", "D", "-", "M", "o", "n", "d", "a", "y">>,
      <<"5", "t", "h", "-", "m", "o", "n", "d", "a", "y">>,
      <<"1", "s", "t", "-", "f", "u", "n", "d", "a", "y">>,
      <<"m", "o", "n", "d", "a", "y">> }

\* recurringMonths values: all twelve, a selection, none, an unsorted array
\* with a duplicate, months out of range, a fraction
MonthsStrings ==
    { <<"[", "1", ",", "2", ",", "3", ",", "4", ",", "5", ",", "6", ",", "7", ",", "8", ",", "9", ",", "1", "0", ",", "1", "1", ",", "1", "2", "]">>,
      <<"[", "1", ",", "3", ",", "5", "]">>,
      <<"[", "]">>,
      <<"[", "3", ",", "1", ",", "1", "]">>,
      <<"[", "0", ",", "1", "3", "]">>,
      <<"[", "1", ".", "5", "]">> }

\* a recurring meeting submitted with the given strings
RecurringInput(pattern, months) ==
    [startDate |-> SubmitDate, endDate |-> Undef, startTime |-> NoStr,
     durationValue |-> Undef, durationUnit |-> "none", userTimezoneOffset |-> Undef,
     name |-> "Monthly Board Meeting", eventType |-> "meeting", isRecurring |-> 1,
     recurringPattern |-> Str(pattern), recurringMonths |-> Str(months)]

RecurringInputs ==
    { RecurringInput(p, m) : p \in PatternStrings, m \in MonthsStrings }

RecurInit == Init /\ serverTz = 0

\* the submissions are recurring meetings, and events of another type sent
\* with recurrence fields all the same
RecurNext ==
    \/ \E caller \in { Anonymous, [id |-> 2, role |-> "representative"] },
          input \in RecurringInputs \cup
                    { [RecurringInput(<<"2", "n", "d", "-", "m", "o", "n", "d", "a", "y">>,
                                      <<"[", "1", ",", "3", ",", "5", "]">>)
                          EXCEPT !.eventType = t, !.name = "Annual Fundraiser"] :
                          t \in {"fundraiser", "rally"} } :
              Submit(caller, input)
    \/ \E id \in DOMAIN events : Approve([id |-> 3, role |-> "admin"], id)
    \/ \E id \in DOMAIN events : GetById(Anonymous, id)

SpecRecur == RecurInit /\ [][RecurNext]_vars

---------------------------------------------------------------------------
(* Time normalisation: calculateEndDate called directly *)

\* the proleptic Gregorian day number of year y, month mo (1..12), day d,
\* counted from 1970-01-01, by the era/day-of-era computation
DaysFromCivil(y, mo, d) ==
    LET yy  == IF mo <= 2 THEN y - 1 ELSE y
        era == yy \div 400
        yoe == yy - era * 400
        mp  == IF mo > 2 THEN mo - 3 ELSE mo + 9
        doy == ((153 * mp + 2) \div 5) + d - 1
        doe == yoe * 365 + (yoe \div 4) - (yoe \div 100) + doy
    IN  era * 146097 + doe - 719468

\* the instant whose UTC reading is y-mo-d hh:mi
CivilInstant(y, mo, d, hh, mi) == (DaysFromCivil(y, mo, d) * 24 + hh) * 60 + mi

\* the UTC reading <<year, month 1..12, day, hour, minute>> of a valid Date
Fields(dt) ==
    <<getUTCFullYear(dt).v, getUTCMonth(dt).v + 1, getUTCDate(dt).v,
      getUTCHours(dt).v, getUTCMinutes(dt).v>>

\* the local date <<year, month 1..12, day>> the call reads from startDate
LocalDate == <<getFullYear(calcArgs.startDate, serverTz).v,
               getMonth(calcArgs.startDate, serverTz).v + 1,
               getDate(calcArgs.startDate, serverTz).v>>

NoDuration == calcArgs.durationValue = Undef /\ calcArgs.durationUnit = "none"

OffsetSupplied == IsNum(calcArgs.userTimezoneOffset)

\* the clock time <<hh, mm>> a string of the form hh:mm in 00:00..23:59
\* spells, read digit by digit; an absent start time reads 00:00; no clock
\* time for any other string
ClockOf(st) ==
    IF st = NoStr THEN {<<0, 0>>}
    ELSE IF /\ Len(st.s) = 5 /\ st.s[3] = ":"
            /\ \A i \in {1, 2, 4, 5} : IsDigit(st.s[i])
         THEN LET hh == 10 * DigitVal(st.s[1]) + DigitVal(st.s[2])
                  mm == 10 * DigitVal(st.s[4]) + DigitVal(st.s[5])
              IN  IF hh <= 23 /\ mm <= 59 THEN {<<hh, mm>>} ELSE {}
         ELSE {}

\* C1: without a duration and with a supplied offset o, calculateEndDate
\* returns the instant that reads (year, month, day, hh, mm) as UTC, plus o
\* minutes, carried across day, month and year boundaries in both
\* directions; the four dated examples of the claim come out as stated.
C1_NormalizedStart ==
    (calcPc = "done" /\ NoDuration /\ OffsetSupplied) =>
        /\ \A hm \in ClockOf(calcArgs.startTime) :
              calcResult = Num(CivilInstant(LocalDate[1], LocalDate[2], LocalDate[3],
                                            hm[1], hm[2])
                               + calcArgs.userTimezoneOffset.v)
        /\ (calcArgs.userTimezoneOffset.v = 0 /\ ClockOf(calcArgs.startTime) # {}) =>
              <<Fields(calcResult)[1], Fields(calcResult)[2], Fields(calcResult)[3]>>
                  = LocalDate
        /\ (LocalDate = <<2025, 1, 15>> /\ calcArgs.startTime = Str(TimeString(22, 0))
               /\ calcArgs.userTimezoneOffset.v = 300) =>
              Fields(calcResult) = <<2025, 1, 16, 3, 0>>
        /\ (LocalDate = <<2025, 1, 15>> /\ calcArgs.startTime = Str(TimeString(0, 30))
               /\ calcArgs.userTimezoneOffset.v = 0 - 60) =>
              Fields(calcResult) = <<2025, 1, 14, 23, 30>>
        /\ (LocalDate = <<2025, 12, 31>> /\ calcArgs.startTime = Str(TimeString(23, 0))
               /\ calcArgs.userTimezoneOffset.v = 300) =>
              Fields(calcResult) = <<2026, 1, 1, 4, 0>>

\* 2025-12-31 23:00 at offset 300 has been normalised into the next year
C1_Witness ==
    /\ calcPc = "done" /\ NoDuration /\ OffsetSupplied
    /\ LocalDate = <<2025, 12, 31>>
    /\ calcArgs.startTime = Str(TimeString(23, 0))
    /\ calcArgs.userTimezoneOffset.v = 300
    /\ calcResult = Num(CivilInstant(2026, 1, 1, 4, 0))

UnitMinutes(u) ==
    CASE u = "minutes" -> 1
      [] u = "hours"   -> 60
      [] u = "days"    -> 24 * 60
      [] OTHER         -> 0

\* the start the call normalises before it applies the duration
CalcStart ==
    NormalizedStart(calcArgs.startDate, calcArgs.startTime,
                    calcArgs.userTimezoneOffset, serverTz)

PositiveDuration ==
    /\ IsNum(calcArgs.durationValue) /\ calcArgs.durationValue.v > 0
    /\ calcArgs.durationUnit \in DurationUnits

\* C3: with a positive whole durationValue d and a durationUnit, the end is
\* the normalised start plus d, 60*d or 1440*d minutes, across hour, day,
\* month and year boundaries; adding days keeps the UTC time of day.
C3_DurationAdded ==
    (calcPc = "done" /\ PositiveDuration /\ IsNum(CalcStart)) =>
        /\ calcResult = Num(CalcStart.v + calcArgs.durationValue.v
                                             * UnitMinutes(calcArgs.durationUnit))
        /\ calcArgs.durationUnit = "days" =>
              /\ getUTCHours(calcResult) = getUTCHours(CalcStart)
              /\ getUTCMinutes(calcResult) = getUTCMinutes(CalcStart)
              /\ Day(calcResult.v) = Day(CalcStart.v) + calcArgs.durationValue.v

\* one day added to 2025-12-31 14:00 UTC has crossed into 2026
C3_Witness ==
    /\ calcPc = "done" /\ PositiveDuration
    /\ calcArgs.durationUnit = "days" /\ calcArgs.durationValue.v = 1
    /\ CalcStart = Num(CivilInstant(2025, 12, 31, 14, 0))
    /\ calcResult = Num(CivilInstant(2026, 1, 1, 14, 0))

\* the minutes a duration stands for; 0 when value or unit is missing
DurationMinutes ==
    IF Truthy(calcArgs.durationValue) /\ calcArgs.durationUnit # "none"
    THEN calcArgs.durationValue.v * UnitMinutes(calcArgs.durationUnit)
    ELSE 0

\* C8: the shift applied is the supplied offset whenever one is supplied,
\* the value 0 included, and the server's own offset only when none is
\* supplied; in both cases the call returns a valid instant.
C8_OffsetChoice ==
    calcPc = "done" =>
        \A hm \in ClockOf(calcArgs.startTime) :
            calcResult =
                Num(CivilInstant(LocalDate[1], LocalDate[2], LocalDate[3], hm[1], hm[2])
                    + (IF OffsetSupplied THEN calcArgs.userTimezoneOffset.v ELSE serverTz)
                    + DurationMinutes)

\* offset 0 was supplied to a server in another zone, and nothing was shifted
C8_Witness ==
    /\ calcPc = "done" /\ NoDuration
    /\ calcArgs.userTimezoneOffset = Num(0)
    /\ serverTz = 300
    /\ calcArgs.startTime = Str(TimeString(14, 0))
    /\ Fields(calcResult) = <<LocalDate[1], LocalDate[2], LocalDate[3], 14, 0>>

\* differences N between two offsets
ShiftSamples == {1, 60, 90, 24 * 60, 0 - 45}

CalcWithOffset(o) ==
    calculateEndDate(calcArgs.startDate, calcArgs.startTime, calcArgs.durationValue,
                     calcArgs.durationUnit, Num(o), serverTz)

\* C9: for the same date, clock time and duration, the instant computed
\* with offset o + N is exactly N minutes later than the one with offset o.
C9_OffsetShift ==
    (calcPc = "done" /\ OffsetSupplied /\ IsNum(calcResult)) =>
        \A n \in ShiftSamples :
            CalcWithOffset(calcArgs.userTimezoneOffset.v + n) = Num(calcResult.v + n)

\* an offset 90 minutes larger moves 23:00 at offset 0 into the next UTC day
C9_Witness ==
    /\ calcPc = "done" /\ OffsetSupplied /\ IsNum(calcResult)
    /\ calcArgs.userTimezoneOffset.v = 0
    /\ calcArgs.startTime = Str(TimeString(23, 0))
    /\ PositiveDuration
    /\ Day(CalcWithOffset(90).v) = Day(CalcStart.v) + 1
    /\ CalcWithOffset(90).v = calcResult.v + 90

---------------------------------------------------------------------------
(* The calendar feed's end of an event *)

DefaultDurationMs == 3600000

\* event.endDate ? event.endDate : new Date(event.startDate.getTime() + 3600000);
\* a stored Date is truthy, NULL is not
ICalDtend(event) ==
    IF event.endDate # Undef THEN event.endDate
    ELSE JSAdd(event.startDate, Num(DefaultDurationMs \div 60000))

---------------------------------------------------------------------------
(* The month checkboxes of the submission form *)

\* monthOptions: the values "1" .. "12"
MonthValues == { DecStr(m) : m \in 1..12 }

\* parseInt of a string of digits
parseInt(str) == DecVal(str)

\* x put into an ascending sequence, after the elements not larger than it
RECURSIVE InsertSorted(_, _)
InsertSorted(arr, x) ==
    IF arr = <<>> THEN <<x>>
    ELSE IF x < Head(arr) THEN <<x>> \o arr
    ELSE <<Head(arr)>> \o InsertSorted(Tail(arr), x)

\* the months left in the order of the clicks
sortNumeric_Keep(arr) == arr

\* currentMonths.sort((a, b) => a - b)
RECURSIVE sortNumeric(_)
sortNumeric(arr) ==
    IF arr = <<>> THEN <<>>
    ELSE InsertSorted(sortNumeric(SubSeq(arr, 1, Len(arr) - 1)), arr[Len(arr)])

\* handleMonthToggle: the new recurringMonths value
handleMonthToggle(recurringMonths, monthValue) ==
    LET currentMonths == IF StrTruthy(recurringMonths) THEN JSONParse(recurringMonths.s)
                         ELSE <<>>
        monthNum == parseInt(monthValue)
        \* indexOf: the 0-based index of the first monthNum, or -1
        index    == IF \E i \in 1..Len(currentMonths) : currentMonths[i] = monthNum
                    THEN (CHOOSE i \in 1..Len(currentMonths) :
                              /\ currentMonths[i] = monthNum
                              /\ \A j \in 1..(i - 1) : currentMonths[j] # monthNum) - 1
                    ELSE 0 - 1
        \* splice(index, 1), or push(monthNum)
        toggled  == IF index > 0 - 1
                    THEN SubSeq(currentMonths, 1, index)
                             \o SubSeq(currentMonths, index + 2, Len(currentMonths))
                    ELSE Append(currentMonths, monthNum)
    IN  Str(JSONStringify(sortNumeric(toggled)))

\* getSelectedMonths: the parsed value, [] without one
getSelectedMonths(recurringMonths) ==
    IF ~StrTruthy(recurringMonths) THEN <<>>
    ELSE IF JSONParse(recurringMonths.s) = <<0 - 1>> THEN <<>>
    ELSE JSONParse(recurringMonths.s)

\* a click on the checkbox of one month
MonthToggle(monthValue) ==
    /\ form' = [recurringMonths |-> handleMonthToggle(form.recurringMonths, monthValue),
                odd |-> IF parseInt(monthValue) \in form.odd
                        THEN form.odd \ {parseInt(monthValue)}
                        ELSE form.odd \cup {parseInt(monthValue)}]
    /\ UNCHANGED <<events, nextId, clock, serverTz, lastResult, calcArgs, calcResult, calcPc,
                   inflight, db>>

FormInit ==
    /\ events = <<>>
    /\ nextId = 1
    /\ clock = 0
    /\ serverTz = 0
    /\ lastResult = [op |-> "none"]
    /\ calcArgs = NoArgs
    /\ calcResult = Undef
    /\ calcPc = "ready"
    /\ inflight = <<>>
    /\ db = TRUE
    /\ form = NoForm

FormNext == \E monthValue \in MonthValues : MonthToggle(monthValue)

SpecForm == FormInit /\ [][FormNext]_vars

---------------------------------------------------------------------------
(* The feeds' text.  Strings are sequences of characters; a fixed piece of *)
(* a template is one element.                                              *)

\* String(n) of a non-negative integer
RECURSIVE NumToString(_)
NumToString(n) ==
    IF n < 10 THEN <<Digits[n + 1]>>
    ELSE NumToString(n \div 10) \o <<Digits[(n % 10) + 1]>>

\* s.padStart(2, "0")
padStart2(s) == IF Len(s) < 2 THEN <<"0">> \o s ELSE s

\* formatICalDate: `${year}${month}${day}T${hours}${minutes}${seconds}Z`,
\* the fields read with the local getters; instants and zone offsets are
\* whole minutes here, so getSeconds() is 0
formatICalDate(date, tz) ==
    LET getHours   == HourFromTime(LocalTime(date.v, tz))
        getMinutes == MinFromTime(LocalTime(date.v, tz))
        getSeconds == 0
    IN  NumToString(getFullYear(date, tz).v)
            \o padStart2(NumToString(getMonth(date, tz).v + 1))
            \o padStart2(NumToString(getDate(date, tz).v))
            \o <<"T">>
            \o padStart2(NumToString(getHours))
            \o padStart2(NumToString(getMinutes))
            \o padStart2(NumToString(getSeconds))
            \o <<"Z">>

\* Date.prototype.toUTCString, by its fields
toUTCString(date) ==
    <<YearFromTime(date.v), MonthFromTime(date.v), DateFromTime(date.v),
      HourFromTime(date.v), MinFromTime(date.v)>>

MaskedLocation == <<"Location details available upon request">>

\* the chain of replace() calls, character by character
RECURSIVE escapeXmlSeq(_)
escapeXmlSeq(s) ==
    LET c == Head(s)
        escaped == CASE c = "&"  -> <<"&amp;">>
                     [] c = "<"  -> <<"&lt;">>
                     [] c = ">"  -> <<"&gt;">>
                     [] c = "\"" -> <<"&quot;">>
                     [] c = "'"  -> <<"&apos;">>
                     [] OTHER    -> <<c>>
    IN  IF s = <<>> THEN <<>> ELSE escaped \o escapeXmlSeq(Tail(s))

\* escapeXml: "" for null, undefined and ""
escapeXml(str) == IF ~StrTruthy(str) THEN <<>> ELSE escapeXmlSeq(str.s)

\* escapeICalText: the chain of replace() calls, character by character
RECURSIVE escapeICalText(_)
escapeICalText(text) ==
    LET c == Head(text)
        escaped == CASE c = "\\" -> <<"\\", "\\">>
                     [] c = ","  -> <<"\\", ",">>
                     [] c = ";"  -> <<"\\", ";">>
                     [] c = "\n" -> <<"\\", "n">>
                     [] c = "\r" -> <<>>
                     [] OTHER    -> <<c>>
    IN  IF text = <<>> THEN <<>> ELSE escaped \o escapeICalText(Tail(text))

\* only private events are masked
shouldMaskLocation_PrivateOnly(event) == event.visibility = "private"

\* event.visibility === "private" || event.visibility === "members"
shouldMaskLocation(event) == event.visibility = "private" \/ event.visibility = "members"

\* one <item> of the RSS feed: the parts that come from the row
RSSItem(event) ==
    [guid       |-> event.id,
     title      |-> event.name,
     date       |-> toUTCString(event.startDate),
     location   |-> IF shouldMaskLocation(event) THEN MaskedLocation
                    ELSE escapeXml(event.location),
     address    |-> IF shouldMaskLocation(event) THEN <<>>
                    ELSE IF StrTruthy(event.locationAddress)
                    THEN <<"<br/>Address: ">> \o escapeXml(event.locationAddress)
                    ELSE <<>>,
     visibility |-> event.visibility,
     lastBuildDate |-> toUTCString(event.updatedAt)]

\* one VEVENT of the calendar feed
ICalEntry(event, now, tz) ==
    [uid      |-> event.id,
     dtstamp  |-> formatICalDate(now, tz),
     dtstart  |-> formatICalDate(event.startDate, tz),
     dtend    |-> formatICalDate(ICalDtend(event), tz),
     summary  |-> event.name,
     location |-> escapeICalText(IF event.visibility = "public" THEN event.location.s
                                 ELSE MaskedLocation)]

FeedLocations ==
    { Str(<<"H", "a", "l", "l">>), Str(<<"A", "&", "B", ",", "2">>) }

FeedAddresses == { NoStr, Str(<<"1", " ", "M", "a", "i", "n">>), Str(<<"9", "<", "O", "a", "k">>) }

\* the rows the feeds select from; the start instants are a UTC midnight
\* and the last half hour of a year
FeedRows ==
    { [id |-> 1, name |-> "Event", startDate |-> sd, endDate |-> ed, status |-> st,
       visibility |-> vis, location |-> loc, locationAddress |-> addr,
       updatedAt |-> Num(sd.v - MinPerDay)] :
         sd \in { Num(UTCMidnight([y |-> 2025, m |-> 0, d |-> 15])),
                  Num(UTCMidnight([y |-> 2025, m |-> 11, d |-> 31]) + 23 * MinPerHour + 30) },
         ed \in {Undef, Num(UTCMidnight([y |-> 2026, m |-> 0, d |-> 1]))},
         st \in {"approved", "pending"}, vis \in {"public", "private", "members"},
         loc \in FeedLocations, addr \in FeedAddresses }

FeedInit ==
    /\ \E row \in FeedRows : events = [i \in {1} |-> row]
    /\ nextId = 2
    /\ clock = 0
    /\ serverTz \in ZoneOffsets
    /\ lastResult = [op |-> "none"]
    /\ calcArgs = NoArgs
    /\ calcResult = Undef
    /\ calcPc = "ready"
    /\ inflight = <<>>
    /\ db = TRUE
    /\ form = NoForm

\* handleCalendarFeed: generateCalendarFeed(getApprovedEvents().events),
\* requested at 2026-01-01 03:05 UTC
CalendarFeedText ==
    /\ \E now \in { Num(UTCMidnight([y |-> 2026, m |-> 0, d |-> 1]) + 3 * MinPerHour + 5) } :
          lastResult' = [op |-> "icalText", now |-> now,
                         entries |-> [id \in { e.id : e \in getApprovedEvents } |->
                                         ICalEntry(events[id], now, serverTz)]]
    /\ Unwritten

\* handleRSSFeed: the items of generateRSSFeed
RSSFeedText ==
    /\ db
    /\ lastResult' = [op |-> "rssText",
                      entries |-> [id \in { e.id : e \in generateRSSFeed } |->
                                      RSSItem(events[id])]]
    /\ Unwritten

FeedNext == CalendarFeedText \/ RSSFeedText

SpecFeed == FeedInit /\ [][FeedNext]_vars

---------------------------------------------------------------------------
(* Submission *)

SubmitOk == lastResult.op = "submit" /\ lastResult.ok

\* the row the last successful submission created
Row == events[lastResult.id]

In == lastResult.input

\* the day the user picked, as the submitted Date spells it in UTC
PickedDay == <<Fields(In.startDate)[1], Fields(In.startDate)[2], Fields(In.startDate)[3]>>

DurationSupplied == Truthy(In.durationValue) /\ In.durationUnit # "none"

\* a start time that is present and is no clock time hh:mm in 00:00..23:59
Malformed(st) == StrTruthy(st) /\ ClockOf(st) = {}

\* C2 as claimed: the stored startDate is the picked day combined with the
\* start time (midnight when absent) and shifted by the supplied offset.
C2_StoredStartNormalized ==
    (SubmitOk /\ IsNum(In.userTimezoneOffset)) =>
        \A hm \in ClockOf(In.startTime) :
            Row.startDate = Num(CivilInstant(PickedDay[1], PickedDay[2], PickedDay[3],
                                             hm[1], hm[2])
                                + In.userTimezoneOffset.v)

C5_EndNotBeforeStart ==
    \A id \in DOMAIN events :
        events[id].endDate # Undef =>
            /\ IsNum(events[id].endDate)
            /\ events[id].endDate.v >= events[id].startDate.v

\* C6 as claimed: a supplied explicit end date is what is stored, shifted
\* by the offset like the start, whether or not a duration came with it.
C6_ExplicitEndWins ==
    (SubmitOk /\ IsNum(In.endDate)) =>
        Row.endDate = JSAdd(In.endDate, EffectiveOffset(In.userTimezoneOffset, serverTz))

\* C6 amended: when a non-zero duration value and a unit are both supplied
\* the stored end is calculateEndDate's result and the explicit end date is
\* ignored; otherwise the explicit end date is stored exactly as submitted,
\* with no offset applied.
C6_DurationWins ==
    (SubmitOk /\ IsNum(In.endDate)) =>
        /\ DurationSupplied =>
              Row.endDate = calculateEndDate(In.startDate, In.startTime, In.durationValue,
                                             In.durationUnit, In.userTimezoneOffset, serverTz)
        /\ ~DurationSupplied => Row.endDate = In.endDate

\* an explicit end and a duration were both supplied, and the stored end is
\* the computed one, not the explicit one
C6_Witness ==
    /\ SubmitOk /\ IsNum(In.endDate) /\ DurationSupplied
    /\ In.startTime = Str(TimeString(14, 0))
    /\ In.userTimezoneOffset = Num(300)
    /\ In.durationValue = Num(2) /\ In.durationUnit = "hours"
    /\ Row.endDate # In.endDate
    /\ Fields(Row.endDate) = <<2025, 1, 15, 21, 0>>

\* C7 as claimed: a submission with a malformed start time fails with a
\* validation error.
C7_MalformedRejected ==
    (lastResult.op = "submit" /\ Malformed(In.startTime)) =>
        /\ ~lastResult.ok
        /\ lastResult.error = "BAD_REQUEST"

---------------------------------------------------------------------------
(* Moderation and publication *)

PublicListings == {"list", "rss", "ical"}

C12_ReasonIffRejected ==
    \A id \in DOMAIN events :
        (events[id].rejectionReason # NoStr) <=> (events[id].status = "rejected")

\* C13: every row has approvedBy and approvedAt both set when its status is
\* approved or rejected, and both unset when it is pending.
C13_ApproverIffModerated ==
    \A id \in DOMAIN events :
        /\ events[id].status \in {"approved", "rejected"} =>
              /\ IsNum(events[id].approvedBy)
              /\ IsNum(events[id].approvedAt)
        /\ events[id].status = "pending" =>
              /\ events[id].approvedBy = Undef
              /\ events[id].approvedAt = Undef

\* an anonymous submission, stored pending, was renamed and then rejected
\* by the second admin
C13_Witness ==
    \E j \in DOMAIN events :
        /\ events[j].submittedBy = Undef
        /\ events[j].name = "Renamed"
        /\ events[j].status = "rejected"
        /\ events[j].approvedBy = Num(4)
        /\ IsNum(events[j].approvedAt)

AdminOps == {"listPending", "approve", "reject", "update", "delete"}

\* a call of op has just been answered (every call overwrites lastResult)
Answered(op) == lastResult'.op = op /\ lastResult' # lastResult

TargetOps == {"approve", "reject", "update", "delete"}

\* C15 as claimed: approve, reject, update and delete called by an admin on
\* an id that no row has fail with NOT_FOUND and write nothing.
C15_MissingIsNotFound ==
    [][ \A op \in TargetOps :
          (/\ Answered(op)
           /\ lastResult'.caller.role = "admin"
           /\ lastResult'.input.id \notin DOMAIN events) =>
              /\ ~lastResult'.ok
              /\ lastResult'.error = "NOT_FOUND"
              /\ events' = events ]_vars

\* the input of the answered call passes the procedure's input schema
ValidInput ==
    /\ lastResult'.op = "reject" => rejectInputSchema(lastResult'.input)
    /\ lastResult'.op = "update" => updateEventSchema(lastResult'.input)

\* C15 amended: approve, reject, update and delete called by an admin on an
\* id that no row has write nothing and fail: with NOT_FOUND when the input
\* passes the procedure's schema, with BAD_REQUEST when it does not (an
\* empty reject reason, an invalid update field), the schema being checked
\* before the row is looked up.
C15_MissingIsNotFoundValid ==
    [][ \A op \in TargetOps :
          (/\ Answered(op)
           /\ lastResult'.caller.role = "admin"
           /\ lastResult'.input.id \notin DOMAIN events) =>
              /\ ~lastResult'.ok
              /\ lastResult'.error = IF ValidInput THEN "NOT_FOUND" ELSE "BAD_REQUEST"
              /\ events' = events
              /\ nextId' = nextId ]_vars

\* an admin's delete of id 999 has been answered NOT_FOUND while the table
\* holds a row
C15_Witness ==
    /\ lastResult.op = "delete"
    /\ lastResult.caller.role = "admin"
    /\ lastResult.input.id = 999
    /\ lastResult.error = "NOT_FOUND"
    /\ DOMAIN events # {}

\* C16: on an existing row in any status an admin's approve succeeds and
\* leaves status approved, approvedBy that admin and approvedAt the time of
\* the call; an admin's reject with a non-empty reason succeeds and leaves
\* status rejected, approvedBy that admin and rejectionReason the given
\* reason; a second approve writes its own approvedBy and approvedAt over
\* the first one's.
C16_UnconditionalModeration ==
    [][ \A id \in DOMAIN events :
          /\ (/\ Answered("approve")
              /\ lastResult'.caller.role = "admin"
              /\ lastResult'.input.id = id) =>
                    /\ lastResult'.ok
                    /\ events'[id].status = "approved"
                    /\ events'[id].approvedBy = Num(lastResult'.caller.id)
                    /\ events'[id].approvedAt = Num(clock')
                    /\ events'[id].approvedAt # events[id].approvedAt
          /\ (/\ Answered("reject")
              /\ lastResult'.caller.role = "admin"
              /\ lastResult'.input.id = id
              /\ StrTruthy(lastResult'.input.reason)) =>
                    /\ lastResult'.ok
                    /\ events'[id].status = "rejected"
                    /\ events'[id].approvedBy = Num(lastResult'.caller.id)
                    /\ events'[id].approvedAt = Num(clock')
                    /\ events'[id].rejectionReason = lastResult'.input.reason ]_vars

\* the only row, never rejected or edited, was approved and then approved
\* again by the second admin: it carries the second admin and the later time
C16_Witness ==
    /\ lastResult.op = "approve" /\ lastResult.ok
    /\ lastResult.caller = Admin4
    /\ clock = 3
    /\ nextId = 2
    /\ \E id \in DOMAIN events :
          /\ lastResult.input.id = id
          /\ events[id].submittedBy = Undef
          /\ events[id].status = "approved"
          /\ events[id].approvedBy = Num(4)
          /\ events[id].approvedAt = Num(3)
          /\ events[id].rejectionReason = NoStr
          /\ events[id].name = "Event"

---------------------------------------------------------------------------
(* Overlapping moderation calls *)

BothDone == \A a \in Racers : inflight[a].pc = "done"

\* the caller whose UPDATE was applied last
LastWriter == CHOOSE a \in Racers : \A b \in Racers : inflight[b].writtenAt <= inflight[a].writtenAt

\* C17: when two moderation calls on the same existing row overlap, both
\* return success after exactly one UPDATE each, and the row's status,
\* approvedBy and approvedAt are all the values of the UPDATE applied last.
C17_LastWriterWins ==
    /\ \A a \in Racers :
          /\ inflight[a].result \in {"none", "success"}
          /\ inflight[a].pc = "done" =>
                /\ inflight[a].result = "success"
                /\ inflight[a].writtenAt > 0
    /\ BothDone =>
          /\ events[1].status = inflight[LastWriter].columns.status
          /\ events[1].approvedBy = Num(LastWriter)
          /\ events[1].approvedAt = inflight[LastWriter].columns.approvedAt
          /\ events[1].updatedAt = Num(inflight[LastWriter].writtenAt)

\* an approve and a reject overlapped on a pending row; the reject read the
\* clock first but was written last, so the row is rejected by admin 4 with
\* an approvedAt earlier than the approval's
C17_Witness ==
    /\ BothDone
    /\ inflight[3].op = "approve" /\ inflight[4].op = "reject"
    /\ LastWriter = 4
    /\ inflight[4].columns.approvedAt.v < inflight[3].columns.approvedAt.v
    /\ events[1].status = "rejected"
    /\ events[1].approvedBy = Num(4)
    /\ events[1].approvedAt = inflight[4].columns.approvedAt

---------------------------------------------------------------------------
(* Recurrence descriptors *)

UpperCase == <<"A", "B", "C", "D", "E", "F", "G", "H", "I", "J", "K", "L", "M", "N", "O", "P", "Q", "R", "S", "T", "U", "V", "W", "X", "Y", "Z">>

LowerCase == <<"a", "b", "c", "d", "e", "f", "g", "h", "i", "j", "k", "l", "m", "n", "o", "p", "q", "r", "s", "t", "u", "v", "w", "x", "y", "z">>

\* a character in lowercase
Lower(c) ==
    IF \E i \in 1..26 : UpperCase[i] = c
    THEN LowerCase[CHOOSE i \in 1..26 : UpperCase[i] = c]
    ELSE c

LowerString(s) == [i \in 1..Len(s) |-> Lower(s[i])]

Ordinals == { <<"1", "s", "t">>, <<"2", "n", "d">>, <<"3", "r", "d">>, <<"4", "t", "h">>, <<"l", "a", "s", "t">> }

Weekdays ==
    { <<"m", "o", "n", "d", "a", "y">>,
      <<"t", "u", "e", "s", "d", "a", "y">>,
      <<"w", "e", "d", "n", "e", "s", "d", "a", "y">>,
      <<"t", "h", "u", "r", "s", "d", "a", "y">>,
      <<"f", "r", "i", "d", "a", "y">>,
      <<"s", "a", "t", "u", "r", "d", "a", "y">>,
      <<"s", "u", "n", "d", "a", "y">> }

\* the text before the first "-" and the text after it
OrdinalOf(s) ==
    IF \E i \in 1..Len(s) : s[i] = "-"
    THEN SubSeq(s, 1, (CHOOSE j \in 1..Len(s) : s[j] = "-" /\ \A l \in 1..(j - 1) : s[l] # "-") - 1)
    ELSE <<>>

WeekdayOf(s) ==
    IF \E i \in 1..Len(s) : s[i] = "-"
    THEN SubSeq(s, (CHOOSE j \in 1..Len(s) : s[j] = "-" /\ \A l \in 1..(j - 1) : s[l] # "-") + 1,
                Len(s))
    ELSE s

\* the ordinal is one of the five tokens and the weekday one of the seven,
\* compared case-insensitively
ValidPattern(s) ==
    /\ LowerString(OrdinalOf(s)) \in Ordinals
    /\ LowerString(WeekdayOf(s)) \in Weekdays

\* the text is a JSON array of integers, each in 1..12
ValidMonths(s) ==
    /\ JSONParse(s) # <<0 - 1>>
    /\ \A i \in 1..Len(JSONParse(s)) : JSONParse(s)[i] \in 1..12

\* the numbers of a sequence in ascending order, each once
RECURSIVE Ascending(_)
Ascending(set) ==
    IF set = {} THEN <<>>
    ELSE LET least == CHOOSE x \in set : \A y \in set : x <= y
         IN  <<least>> \o Ascending(set \ {least})

CanonicalMonths(months) == Ascending({ months[i] : i \in 1..Len(months) })

RecurringSubmission == lastResult.op = "submit" /\ Opt(In, "isRecurring", 0) = 1

\* C18 as claimed: a recurring submission whose ordinal or weekday is not
\* one of the tokens is rejected with a validation error and stores nothing;
\* every accepted pattern is stored in lowercase.
C18_PatternValidated ==
    RecurringSubmission =>
        IF ValidPattern(In.recurringPattern.s)
        THEN lastResult.ok => Row.recurringPattern = Str(LowerString(In.recurringPattern.s))
        ELSE ~lastResult.ok /\ lastResult.error = "BAD_REQUEST"

\* C19 as claimed: the stored months of an accepted recurring submission
\* are the JSON text of the ascending, duplicate-free array of the submitted
\* months; months outside 1..12 or non-integers are rejected with a
\* validation error; the empty array is stored as the empty array.
C19_MonthsCanonical ==
    RecurringSubmission =>
        IF ValidMonths(In.recurringMonths.s)
        THEN lastResult.ok =>
                Row.recurringMonths =
                    Str(JSONStringify(CanonicalMonths(JSONParse(In.recurringMonths.s))))
        ELSE ~lastResult.ok /\ lastResult.error = "BAD_REQUEST"

\* C20 as claimed: when a valid descriptor was submitted on a meeting and
\* the approved event is read back, its pattern is the submitted one in
\* lowercase and its months parse to the submitted months sorted and
\* deduplicated.
C20_RoundTrip ==
    [][ (/\ lastResult.op = "submit" /\ lastResult.ok
         /\ Opt(lastResult.input, "isRecurring", 0) = 1
         /\ ValidPattern(lastResult.input.recurringPattern.s)
         /\ ValidMonths(lastResult.input.recurringMonths.s)
         /\ lastResult'.op = "getById" /\ lastResult'.ok
         /\ lastResult'.input.id = lastResult.id) =>
            /\ lastResult'.event.recurringPattern.s
                   = LowerString(lastResult.input.recurringPattern.s)
            /\ JSONParse(lastResult'.event.recurringMonths.s)
                   = CanonicalMonths(JSONParse(lastResult.input.recurringMonths.s)) ]_vars

\* C21 as claimed: a submission of a type other than meeting that carries
\* recurrence fields succeeds, and the stored row has isRecurring 0 and no
\* pattern and no months.
C21_NonMeetingCleared ==
    (/\ lastResult.op = "submit"
     /\ Opt(In, "eventType", "other") # "meeting"
     /\ Opt(In, "isRecurring", 0) = 1) =>
        /\ lastResult.ok
        /\ Row.isRecurring = 0
        /\ Row.recurringPattern = NoStr
        /\ Row.recurringMonths = NoStr

---------------------------------------------------------------------------
(* Overlapping submissions *)

SubIds == { c.id : c \in SubmitRacers }

\* the calls whose INSERT has been applied
Inserted == { a \in SubIds : inflight[a].insertId # 0 }

\* C22: under every interleaving of overlapping submissions, each call that
\* returns successfully has created exactly one row and returns that row's id
\* and stored status, a call that fails has created none, and the ids
\* returned by distinct successful calls are distinct.
C22_OneRecordPerSubmit ==
    /\ Cardinality(DOMAIN events) = Cardinality(Inserted)
    /\ \A a \in SubIds :
          inflight[a].pc = "done" =>
              IF inflight[a].result.ok
              THEN /\ inflight[a].result.id \in DOMAIN events
                   /\ events[inflight[a].result.id].submittedBy = userId(CallerOf(a))
                   /\ events[inflight[a].result.id].submittedAt = Num(inflight[a].now)
                   /\ inflight[a].result.status = events[inflight[a].result.id].status
                   /\ \A b \in SubIds \ {a} :
                         events[inflight[a].result.id].submittedBy # userId(CallerOf(b))
              ELSE /\ a \notin Inserted
                   /\ \A id \in DOMAIN events : events[id].submittedBy # userId(CallerOf(a))
    /\ \A a, b \in SubIds :
          (/\ a # b
           /\ inflight[a].pc = "done" /\ inflight[a].result.ok
           /\ inflight[b].pc = "done" /\ inflight[b].result.ok) =>
              inflight[a].result.id # inflight[b].result.id

\* the representative's INSERT was applied before the user's, the user's
\* SELECT ran first, and both calls returned their own rows; the anonymous
\* submission failed validation and stored nothing
C22_Witness ==
    /\ \A a \in SubIds : inflight[a].pc = "done"
    /\ inflight[2].result = [ok |-> TRUE, error |-> "none", id |-> 1, status |-> "approved"]
    /\ inflight[1].result = [ok |-> TRUE, error |-> "none", id |-> 2, status |-> "pending"]
    /\ inflight[1].now < inflight[2].now
    /\ inflight[0].result.error = "BAD_REQUEST"
    /\ DOMAIN events = {1, 2}

---------------------------------------------------------------------------
(* Submission without a session *)

---------------------------------------------------------------------------
(* Editing one's own submission *)

\* the caller of the answered call is the row's recorded submitter or an admin
OwnerOrAdmin ==
    \/ events[lastResult'.input.id].submittedBy = Num(lastResult'.caller.id)
    \/ lastResult'.caller.role = "admin"

\* C24: events.updateOwn changes a record only when the caller is its
\* recorded submitter or an admin; for every other signed-in caller it fails
\* with FORBIDDEN and the record is unchanged, records without a submitter
\* included; for a missing id it fails with NOT_FOUND.
C24_OwnerOrAdminOnly ==
    [][ Answered("updateOwn") =>
          IF lastResult'.input.id \notin DOMAIN events
          THEN /\ ~lastResult'.ok
               /\ lastResult'.error = "NOT_FOUND"
               /\ events' = events
          ELSE \/ OwnerOrAdmin
               \/ /\ ~lastResult'.ok
                  /\ lastResult'.error = "FORBIDDEN"
                  /\ events' = events ]_vars

\* C24 amended: the same for every call whose input passes updateEventSchema;
\* a call whose input does not pass it fails with BAD_REQUEST, whoever the
\* caller and whatever the id, and changes nothing.
C24_OwnerOrAdminOnlyValid ==
    [][ Answered("updateOwn") =>
          IF ~updateEventSchema(lastResult'.input)
          THEN /\ ~lastResult'.ok
               /\ lastResult'.error = "BAD_REQUEST"
               /\ events' = events
          ELSE IF lastResult'.input.id \notin DOMAIN events
          THEN /\ ~lastResult'.ok
               /\ lastResult'.error = "NOT_FOUND"
               /\ events' = events
          ELSE IF OwnerOrAdmin
          THEN /\ lastResult'.ok
               /\ \A id \in DOMAIN events \ {lastResult'.input.id} : events'[id] = events[id]
          ELSE /\ ~lastResult'.ok
               /\ lastResult'.error = "FORBIDDEN"
               /\ events' = events ]_vars

\* user 1 has been refused the edit of a row submitted without a session
C24_Witness ==
    /\ lastResult.op = "updateOwn"
    /\ lastResult.caller = [id |-> 1, role |-> "user"]
    /\ lastResult.error = "FORBIDDEN"
    /\ lastResult.input.id \in DOMAIN events
    /\ events[lastResult.input.id].submittedBy = Undef
    /\ events[lastResult.input.id].name = PlainInput.name

---------------------------------------------------------------------------
(* Persistence unavailable *)

EventOps == {"submit", "list", "getById", "listPending", "approve", "reject",
             "update", "delete"}

\* the last call got past the procedure's role check and input schema
PastGate ==
    /\ lastResult.op \in AdminOps \cup {"listPending"} => lastResult.caller.role = "admin"
    /\ lastResult.op = "submit" => eventInputSchema(lastResult.input)
    /\ lastResult.op = "reject" => rejectInputSchema(lastResult.input)
    /\ lastResult.op = "update" => updateEventSchema(lastResult.input)

\* C25: with the persistence layer unavailable, every event operation
\* (submit, list, getById, listPending, approve, reject, update, delete)
\* that reaches it fails with an internal error; none returns an empty
\* result, NOT_FOUND or success.
C25_UnavailableIsInternalError ==
    (~db /\ lastResult.op \in EventOps /\ PastGate) =>
        /\ ~lastResult.ok
        /\ lastResult.error = "INTERNAL_SERVER_ERROR"

---------------------------------------------------------------------------
(* The feeds *)

\* the UTC fields of an instant as YYYYMMDDTHHMMSSZ
UTCStamp(date) ==
    NumToString(YearFromTime(date.v))
        \o padStart2(NumToString(MonthFromTime(date.v) + 1))
        \o padStart2(NumToString(DateFromTime(date.v)))
        \o <<"T">>
        \o padStart2(NumToString(HourFromTime(date.v)))
        \o padStart2(NumToString(MinFromTime(date.v)))
        \o <<"0", "0", "Z">>

\* C26: whatever the zone of the rendering process, DTSTART, DTEND and
\* DTSTAMP, written with a trailing Z, spell the UTC year, month, day,
\* hour, minute and second of the instant.
C26_ICalStampIsUTC ==
    lastResult.op = "icalText" =>
        \A id \in DOMAIN lastResult.entries :
            /\ lastResult.entries[id].dtstart = UTCStamp(events[id].startDate)
            /\ lastResult.entries[id].dtend = UTCStamp(ICalDtend(events[id]))
            /\ lastResult.entries[id].dtstamp = UTCStamp(lastResult.now)

\* the row with another location and address
Relocated(row, loc, addr) == [row EXCEPT !.location = loc, !.locationAddress = addr]

\* C27: the feeds' entry of an approved private or members event holds
\* neither its location nor its address, and is the entry the same event
\* would have with any other location and address; a public event's entry
\* shows its location.
C27_LocationMasked ==
    /\ lastResult.op = "rssText" =>
          \A id \in DOMAIN lastResult.entries :
              IF events[id].visibility \in {"private", "members"}
              THEN /\ lastResult.entries[id].location = MaskedLocation
                   /\ lastResult.entries[id].address = <<>>
                   /\ \A loc \in FeedLocations, addr \in FeedAddresses :
                         RSSItem(Relocated(events[id], loc, addr)) = lastResult.entries[id]
              ELSE lastResult.entries[id].location = escapeXml(events[id].location)
    /\ lastResult.op = "icalText" =>
          \A id \in DOMAIN lastResult.entries :
              IF events[id].visibility \in {"private", "members"}
              THEN /\ lastResult.entries[id].location = MaskedLocation
                   /\ \A loc \in FeedLocations, addr \in FeedAddresses :
                         ICalEntry(Relocated(events[id], loc, addr), lastResult.now, serverTz)
                             = lastResult.entries[id]
              ELSE lastResult.entries[id].location = escapeICalText(events[id].location.s)
    /\ lastResult.op \in {"rssText", "icalText"} =>
          DOMAIN lastResult.entries = { id \in DOMAIN events : events[id].status = "approved" }

\* the RSS feed has rendered a members-only event that has an address
C27_Witness ==
    /\ lastResult.op = "rssText"
    /\ 1 \in DOMAIN lastResult.entries
    /\ events[1].visibility = "members"
    /\ events[1].locationAddress # NoStr
    /\ lastResult.entries[1].location = MaskedLocation
    /\ lastResult.entries[1].address = <<>>

---------------------------------------------------------------------------
(* The server's zone *)

\* C28: when an offset is supplied, the result of calculateEndDate is
\* determined by the date instant, start time, duration and offset alone:
\* a server in any other zone returns the same instant for the same
\* arguments.
C28_ServerZoneIrrelevant ==
    (calcPc = "done" /\ OffsetSupplied) =>
        \A tz \in ZoneOffsets :
            calculateEndDate(calcArgs.startDate, calcArgs.startTime, calcArgs.durationValue,
                             calcArgs.durationUnit, calcArgs.userTimezoneOffset, tz)
                = calcResult

---------------------------------------------------------------------------
(* Moderation overlapping a deletion *)

\* the call whose DELETE has been applied, if any
Deleted == { b \in Racers : inflight[b].op = "delete" /\ inflight[b].writtenAt # 0 }

\* C29: under every interleaving with a concurrent events.delete of the same
\* id, an approve or reject whose UPDATE was applied after the DELETE does
\* not return success, and no moderation call brings the deleted row back.
C29_SuccessMeansUpdated ==
    /\ \A a \in Racers, b \in Deleted :
          (/\ inflight[a].op \in {"approve", "reject"}
           /\ inflight[a].writtenAt > inflight[b].writtenAt) =>
              inflight[a].result # "success"
    /\ Deleted # {} => events = <<>>

---------------------------------------------------------------------------
(* The month checkboxes *)

\* the elements of a set of numbers in ascending order
RECURSIVE AscendingSeq(_)
AscendingSeq(S) ==
    IF S = {} THEN <<>>
    ELSE LET least == CHOOSE x \in S : \A y \in S : x <= y
         IN  <<least>> \o AscendingSeq(S \ {least})

\* the value after month m is clicked twice
ClickedTwice(monthValue) ==
    handleMonthToggle(handleMonthToggle(form.recurringMonths, monthValue), monthValue)

\* the value set by a click encodes the strictly ascending array of exactly
\* the months clicked an odd number of times, all within 1..12
EncodesOddMonths ==
    StrTruthy(form.recurringMonths) =>
        LET months == JSONParse(form.recurringMonths.s) IN
        /\ form.recurringMonths.s = JSONStringify(AscendingSeq(form.odd))
        /\ \A i \in 1..Len(months) : months[i] \in 1..12
        /\ \A i, j \in 1..Len(months) : i < j => months[i] < months[j]
        /\ { months[i] : i \in 1..Len(months) } = form.odd
        /\ getSelectedMonths(form.recurringMonths) = months

\* C30: after any sequence of handleMonthToggle calls from no selection,
\* recurringMonths is the JSON encoding of the strictly ascending array of
\* exactly the months toggled an odd number of times, without duplicates or
\* values outside 1..12, and toggling one month twice restores the previous
\* value.
C30_ToggleParity ==
    /\ EncodesOddMonths
    /\ \A monthValue \in MonthValues : ClickedTwice(monthValue) = form.recurringMonths

\* C30 amended: the same, except that the form starts with no
\* recurringMonths value at all: before the first call the value is
\* undefined, and toggling one month twice from there leaves "[]", the
\* encoding of the same empty selection; from every value a call has set,
\* toggling one month twice restores it.
C30_ToggleParityFromUnset ==
    /\ EncodesOddMonths
    /\ form.recurringMonths = NoStr => form.odd = {}
    /\ \A monthValue \in MonthValues :
          ClickedTwice(monthValue) = IF form.recurringMonths = NoStr
                                     THEN Str(<<"[", "]">>)
                                     ELSE form.recurringMonths

\* October and December are selected, whatever the order of the clicks
C30_Witness ==
    /\ form.recurringMonths = Str(<<"[", "1", "0", ",", "1", "2", "]">>)
    /\ form.odd = {10, 12}

=============================================================================
